---- MODULE Spec2Model ----
(***************************************************************************)
(* Mergington High School activities API (src/src/app.py).                 *)
(*                                                                         *)
(* Strings that the code inspects character by character (activity names)  *)
(* are sequences of one-character strings.  Emails are sequences of        *)
(* tokens (local part, "@", domain).  Texts that are only stored or        *)
(* formatted (descriptions, schedules, message templates) are strings.     *)
(***************************************************************************)
EXTENDS Integers, Sequences, FiniteSets, TLC

VARIABLES
    activities,   \* the module-level dict `activities`: key -> activity record
    last,         \* the request last handled to completion and its response
    th            \* the signup requests in flight on the server's worker threads

vars == <<activities, last, th>>

---------------------------------------------------------------------------
(* Bounds of the model *)

\* number of further students s01, s02, ... that enrol in Chess Club in turn
NumFillers == 11

\* number of worker threads that run signup_for_activity concurrently
NumThreads == 2

---------------------------------------------------------------------------
(* Characters *)

UpperLetters == <<"A", "B", "C", "D", "E", "F", "G", "H", "I", "J", "K", "L", "M", "N", "O", "P", "Q", "R", "S", "T", "U", "V", "W", "X", "Y", "Z">>

LowerLetters == <<"a", "b", "c", "d", "e", "f", "g", "h", "i", "j", "k", "l", "m", "n", "o", "p", "q", "r", "s", "t", "u", "v", "w", "x", "y", "z">>

Digits == {"0", "1", "2", "3", "4", "5", "6", "7", "8", "9"}

\* the characters str.strip(), str.split() and the regex class \s treat as space
Whitespace == {" ", "\t", "\n"}

IsSpace(c) == c \in Whitespace

UpperSet == {UpperLetters[i] : i \in 1..Len(UpperLetters)}

LowerSet == {LowerLetters[i] : i \in 1..Len(LowerLetters)}

\* the lower-case letter of each upper-case letter, and the reverse
ToLower == [c \in UpperSet |->
              LowerLetters[CHOOSE i \in 1..Len(UpperLetters) : UpperLetters[i] = c]]

ToUpper == [c \in LowerSet |->
              UpperLetters[CHOOSE i \in 1..Len(LowerLetters) : LowerLetters[i] = c]]

IsUpper(c) == c \in UpperSet

IsLower(c) == c \in LowerSet

IsAlnum(c) == IsUpper(c) \/ IsLower(c) \/ c \in Digits

\* str.lower() on one character
LowerChar(c) == IF IsUpper(c) THEN ToLower[c] ELSE c

\* str.lower()
Lower(s) == [i \in 1..Len(s) |-> LowerChar(s[i])]

RECURSIVE LStrip(_)
LStrip(s) == IF s # <<>> /\ IsSpace(Head(s)) THEN LStrip(Tail(s)) ELSE s

RECURSIVE RStrip(_)
RStrip(s) ==
    IF s # <<>> /\ IsSpace(s[Len(s)]) THEN RStrip(SubSeq(s, 1, Len(s) - 1)) ELSE s

\* str.strip()
Strip(s) == RStrip(LStrip(s))

\* the leading run of non-space characters of s
RECURSIVE TakeWord(_)
TakeWord(s) ==
    IF s = <<>> \/ IsSpace(Head(s)) THEN <<>> ELSE <<Head(s)>> \o TakeWord(Tail(s))

\* str.split(): the maximal runs of non-space characters, in order
RECURSIVE Split(_)
Split(s) ==
    LET t == LStrip(s)
        w == TakeWord(t)
    IN  IF t = <<>> THEN <<>>
        ELSE <<w>> \o Split(SubSeq(t, Len(w) + 1, Len(t)))

\* " ".join(words)
RECURSIVE Join(_)
Join(words) ==
    IF words = <<>> THEN <<>>
    ELSE IF Len(words) = 1 THEN words[1]
    ELSE words[1] \o <<" ">> \o Join(Tail(words))

\* variant: the .lower() is left out
normalize_without_lower(name) == Join(Split(Strip(name)))

\* " ".join(name.strip().split()).lower()
normalize_activity_name(name) == Lower(Join(Split(Strip(name))))

\* re.match(r'^[a-zA-Z0-9\s]+$', activity_name)
NameMatches(name) ==
    /\ Len(name) >= 1
    /\ \A i \in 1..Len(name) : IsAlnum(name[i]) \/ IsSpace(name[i])

---------------------------------------------------------------------------
(* The seed catalog *)

ChessClub == <<"C", "h", "e", "s", "s", " ", "C", "l", "u", "b">>

ProgrammingClass == <<"P", "r", "o", "g", "r", "a", "m", "m", "i", "n", "g", " ", "C", "l", "a", "s", "s">>

GymClass == <<"G", "y", "m", " ", "C", "l", "a", "s", "s">>

SoccerTeam == <<"S", "o", "c", "c", "e", "r", " ", "T", "e", "a", "m">>

BasketballClub == <<"B", "a", "s", "k", "e", "t", "b", "a", "l", "l", " ", "C", "l", "u", "b">>

DramaClub == <<"D", "r", "a", "m", "a", " ", "C", "l", "u", "b">>

PaintingWorkshop == <<"P", "a", "i", "n", "t", "i", "n", "g", " ", "W", "o", "r", "k", "s", "h", "o", "p">>

MathClub == <<"M", "a", "t", "h", " ", "C", "l", "u", "b">>

DebateTeam == <<"D", "e", "b", "a", "t", "e", " ", "T", "e", "a", "m">>

\* the keys of `activities` in the dict's iteration (insertion) order
ActivityKeys ==
    <<ChessClub, ProgrammingClass, GymClass, SoccerTeam, BasketballClub,
      DramaClub, PaintingWorkshop, MathClub, DebateTeam>>

InstitutionDomain == "mergington.edu"

Student(local) == <<local, "@", InstitutionDomain>>

Activity(d, s, m, p) ==
    [description |-> d, schedule |-> s, max_participants |-> m, participants |-> p]

SeedActivities ==
    (ChessClub :> Activity("Learn strategies and compete in chess tournaments",
                           "Fridays, 3:30 PM - 5:00 PM", 12,
                           <<Student("michael"), Student("daniel")>>))
    @@ (ProgrammingClass :> Activity("Learn programming fundamentals and build software projects",
                           "Tuesdays and Thursdays, 3:30 PM - 4:30 PM", 20,
                           <<Student("emma"), Student("sophia")>>))
    @@ (GymClass :> Activity("Physical education and sports activities",
                           "Mondays, Wednesdays, Fridays, 2:00 PM - 3:00 PM", 30,
                           <<Student("john"), Student("olivia")>>))
    @@ (SoccerTeam :> Activity("Join the school soccer team and compete in tournaments",
                           "Tuesdays and Thursdays, 4:00 PM - 5:30 PM", 22, <<>>))
    @@ (BasketballClub :> Activity("Practice basketball and participate in friendly matches",
                           "Wednesdays, 3:00 PM - 4:30 PM", 15, <<>>))
    @@ (DramaClub :> Activity("Explore acting and participate in school plays",
                           "Mondays, 4:00 PM - 5:30 PM", 20, <<>>))
    @@ (PaintingWorkshop :> Activity("Learn painting techniques and create your own artwork",
                           "Thursdays, 3:30 PM - 5:00 PM", 15, <<>>))
    @@ (MathClub :> Activity("Solve challenging math problems and prepare for competitions",
                           "Fridays, 3:30 PM - 5:00 PM", 10, <<>>))
    @@ (DebateTeam :> Activity("Develop public speaking skills and participate in debates",
                           "Tuesdays, 4:00 PM - 5:30 PM", 12, <<>>))

---------------------------------------------------------------------------
(* Responses *)

\* raise HTTPException(status_code=code, detail=f"...") ; the f-string is kept
\* as its template and the values interpolated into it
HTTPException(code, fmt, args) ==
    [status_code |-> code, detail |-> [fmt |-> fmt, args |-> args]]

\* a handler's return value, sent with status 200
Ok(body) == [status_code |-> 200, body |-> body]

NoResponse == [status_code |-> 0]

---------------------------------------------------------------------------
(* Handlers *)

Contains(seq, x) == \E i \in 1..Len(seq) : seq[i] = x

\* normalize_activity_name(k) for the keys k of `activities`, in their order
NormalizedKeys ==
    [i \in 1..Len(ActivityKeys) |-> normalize_activity_name(ActivityKeys[i])]

\* the index in ActivityKeys of the first key whose normalized form is
\* normalized_name, or 0: next((v for k, v in activities.items() if ...), None)
FirstMatch(acts, normalized_name) ==
    LET hits == {i \in 1..Len(ActivityKeys) :
                    /\ ActivityKeys[i] \in DOMAIN acts
                    /\ NormalizedKeys[i] = normalized_name}
    IN  IF hits = {} THEN 0 ELSE CHOOSE i \in hits : \A j \in hits : i <= j

\* variant: the 404 message is built from normalized_name
get_activity_by_name_normalized_detail(acts, activity_name) ==
    LET normalized_name == normalize_activity_name(activity_name)
        i == FirstMatch(acts, normalized_name)
    IN  IF i = 0
        THEN [raised |-> TRUE,
              exc |-> [status_code |-> 404,
                       detail |-> [fmt |-> "Activity '{activity_name}' not found",
                                   args |-> <<normalized_name>>]]]
        ELSE [raised |-> FALSE, key |-> ActivityKeys[i]]

\* get_activity_by_name: the activity is returned by reference, here its key
get_activity_by_name(acts, activity_name) ==
    LET normalized_name == normalize_activity_name(activity_name)
        i == FirstMatch(acts, normalized_name)
    IN  IF i = 0
        THEN [raised |-> TRUE,
              exc |-> HTTPException(404, "Activity '{activity_name}' not found",
                                    <<activity_name>>)]
        ELSE [raised |-> FALSE, key |-> ActivityKeys[i]]

\* GET /activities
get_activities(acts) == Ok(acts)

\* GET /activities/{activity_name}
get_activity(acts, activity_name) ==
    IF ~NameMatches(activity_name)
    THEN HTTPException(400, "Activity name can only contain letters, numbers and spaces", <<>>)
    ELSE LET found == get_activity_by_name(acts, activity_name)
         IN  IF found.raised THEN found.exc ELSE Ok(acts[found.key])

---------------------------------------------------------------------------
(* POST /activities/{activity_name}/signup *)

\* the domain tokens that have a top-level domain
DottedDomains == {InstitutionDomain, "example.com"}

\* SignupRequest.email : EmailStr -- one local part, one "@", one dotted domain
EmailStrValid(email) ==
    /\ Len(email) = 3
    /\ email[1] # "@"
    /\ email[2] = "@"
    /\ email[3] \in DottedDomains

\* the framework's answer to a body that fails SignupRequest's validation
RequestValidationError ==
    HTTPException(422, "value is not a valid email address", <<>>)

\* SignupRequest.is_valid_domain: self.email.endswith("@mergington.edu")
is_valid_domain(email) ==
    /\ Len(email) >= 2
    /\ email[Len(email) - 1] = "@"
    /\ email[Len(email)] = InstitutionDomain

\* request.email in activity["participants"]
IsParticipant(acts, key, email) == Contains(acts[key].participants, email)

\* variant: > in place of >=
IsFull_off_by_one(acts, key) ==
    Len(acts[key].participants) > acts[key].max_participants

\* len(activity["participants"]) >= activity["max_participants"]
IsFull(acts, key) == Len(acts[key].participants) >= acts[key].max_participants

\* variant: participants.insert(0, request.email)
AppendParticipant_front(acts, key, email) ==
    [acts EXCEPT ![key].participants = <<email>> \o @]

\* variant: activity["participants"] = [request.email]
AppendParticipant_overwrite(acts, key, email) ==
    [acts EXCEPT ![key].participants = <<email>>]

\* activity["participants"].append(request.email)
AppendParticipant(acts, key, email) ==
    [acts EXCEPT ![key].participants = Append(@, email)]

DomainError ==
    HTTPException(400, "Only @mergington.edu email addresses are allowed", <<>>)

AlreadySignedUpError(email) ==
    HTTPException(400, "Student '{request.email}' is already signed up for this activity",
                  <<email>>)

ActivityFullError(activity_name) ==
    HTTPException(400, "Activity '{activity_name}' is already full", <<activity_name>>)

\* the dict returned on success; the length is read after the append
SignupResult(acts, key, activity_name, email) ==
    Ok([message |-> [fmt |-> "Successfully signed up {request.email} for {activity_name}",
                     args |-> <<email, activity_name>>],
        current_participants |-> Len(acts[key].participants)])

\* variant: the capacity check comes before the membership check
signup_for_activity_full_first(acts, activity_name, email) ==
    IF ~is_valid_domain(email)
    THEN [activities |-> acts, response |-> DomainError]
    ELSE LET found == get_activity_by_name(acts, activity_name)
         IN  IF found.raised
             THEN [activities |-> acts, response |-> found.exc]
             ELSE IF IsFull(acts, found.key)
             THEN [activities |-> acts, response |-> ActivityFullError(activity_name)]
             ELSE IF IsParticipant(acts, found.key, email)
             THEN [activities |-> acts, response |-> AlreadySignedUpError(email)]
             ELSE LET appended == AppendParticipant(acts, found.key, email)
                  IN  [activities |-> appended,
                       response |-> SignupResult(appended, found.key, activity_name, email)]

\* variant: the append comes before the capacity check
signup_for_activity_append_first(acts, activity_name, email) ==
    IF ~is_valid_domain(email)
    THEN [activities |-> acts, response |-> DomainError]
    ELSE LET found == get_activity_by_name(acts, activity_name)
         IN  IF found.raised
             THEN [activities |-> acts, response |-> found.exc]
             ELSE IF IsParticipant(acts, found.key, email)
             THEN [activities |-> acts, response |-> AlreadySignedUpError(email)]
             ELSE LET appended == AppendParticipant(acts, found.key, email)
                  IN  IF Len(appended[found.key].participants)
                            > appended[found.key].max_participants
                      THEN [activities |-> appended,
                            response |-> ActivityFullError(activity_name)]
                      ELSE [activities |-> appended,
                            response |-> SignupResult(appended, found.key,
                                                      activity_name, email)]

\* variant: the name-format check of get_activity is applied to signups too
signup_for_activity_name_check(acts, activity_name, email) ==
    IF ~is_valid_domain(email)
    THEN [activities |-> acts, response |-> DomainError]
    ELSE IF ~NameMatches(activity_name)
    THEN [activities |-> acts,
          response |-> HTTPException(400,
                          "Activity name can only contain letters, numbers and spaces", <<>>)]
    ELSE LET found == get_activity_by_name(acts, activity_name)
         IN  IF found.raised
             THEN [activities |-> acts, response |-> found.exc]
             ELSE IF IsParticipant(acts, found.key, email)
             THEN [activities |-> acts, response |-> AlreadySignedUpError(email)]
             ELSE IF IsFull(acts, found.key)
             THEN [activities |-> acts, response |-> ActivityFullError(activity_name)]
             ELSE LET appended == AppendParticipant(acts, found.key, email)
                  IN  [activities |-> appended,
                       response |-> SignupResult(appended, found.key, activity_name, email)]

\* the body of signup_for_activity, run without interruption
signup_for_activity(acts, activity_name, email) ==
    IF ~is_valid_domain(email)
    THEN [activities |-> acts, response |-> DomainError]
    ELSE LET found == get_activity_by_name(acts, activity_name)
         IN  IF found.raised
             THEN [activities |-> acts, response |-> found.exc]
             ELSE IF IsParticipant(acts, found.key, email)
             THEN [activities |-> acts, response |-> AlreadySignedUpError(email)]
             ELSE IF IsFull(acts, found.key)
             THEN [activities |-> acts, response |-> ActivityFullError(activity_name)]
             ELSE LET appended == AppendParticipant(acts, found.key, email)
                  IN  [activities |-> appended,
                       response |-> SignupResult(appended, found.key, activity_name, email)]

\* the route: the body is validated against SignupRequest, then the handler runs
post_signup(acts, activity_name, email) ==
    IF ~EmailStrValid(email)
    THEN [activities |-> acts, response |-> RequestValidationError]
    ELSE signup_for_activity(acts, activity_name, email)

---------------------------------------------------------------------------
(* Inputs *)

Unknown == <<"U", "n", "k", "n", "o", "w", "n">>

ChessBang == <<"C", "h", "e", "s", "s", "!">>

ChessClubBang == <<"C", "h", "e", "s", "s", " ", "C", "l", "u", "b", "!">>

OnlySpaces == <<" ", "\t">>

\* s with the case of its i-th character switched
ToggleCase(s, i) ==
    LET c == s[i]
        d == IF IsUpper(c) THEN ToLower[c]
             ELSE IF IsLower(c) THEN ToUpper[c]
             ELSE c
    IN  [s EXCEPT ![i] = d]

\* s with the whitespace character w put in before its i-th character
InsertAt(s, i, w) == SubSeq(s, 1, i - 1) \o <<w>> \o SubSeq(s, i, Len(s))

\* "chess club"
chess_club == ToggleCase(ToggleCase(ChessClub, 1), 7)

\* "  cHESS \t CLUB\n"
chess_club_spaced ==
    LET flipped == [i \in 1..Len(ChessClub) |-> ToggleCase(ChessClub, i)[i]]
    IN  InsertAt(InsertAt(InsertAt(InsertAt(InsertAt(
            flipped, 11, "\n"), 7, " "), 7, "\t"), 1, " "), 1, " ")

\* spellings that differ from the first one only in letter case, in leading
\* or trailing whitespace, or in the length of an internal run of whitespace
SpellingsOfChessClub ==
    { ChessClub, chess_club, chess_club_spaced,
      ToggleCase(ChessClub, 3),
      InsertAt(ChessClub, 6, "\t"),
      InsertAt(ChessClub, 11, " ") }

SpellingsOfMathClub == { MathClub, InsertAt(ToggleCase(MathClub, 2), 1, "\t") }

SpellingsOfUnknown == { Unknown, ToggleCase(Unknown, 1), InsertAt(Unknown, 8, "\n") }

SpellingClasses == {SpellingsOfChessClub, SpellingsOfMathClub, SpellingsOfUnknown}

\* the same words run together, or split: not a mere change of spacing
NotSpellings == { <<"C", "h", "e", "s", "s", "C", "l", "u", "b">>,
                  InsertAt(Unknown, 3, " ") }

Names ==
    (UNION SpellingClasses) \cup NotSpellings
        \cup {ChessBang, ChessClubBang, OnlySpaces}

\* the students who enrol in Chess Club one after the other
FillerLocal ==
    <<"new", "s02", "s03", "s04", "s05", "s06", "s07", "s08", "s09", "s10", "s11", "s12",
      "s13", "s14">>

Filler(i) == Student(FillerLocal[i])

\* the emails a client may send at any time
TestEmails ==
    { Student("michael"),
      <<"new", "@", "example.com">>,      \* valid, another domain
      <<"new", InstitutionDomain>> }       \* no "@"

\* the next student to enrol in Chess Club
NextFiller(acts) ==
    LET n == Cardinality({i \in 1..NumFillers :
                            Contains(acts[ChessClub].participants, Filler(i))})
    IN  IF n < NumFillers THEN {Filler(n + 1)} ELSE {}

\* the students s.. sign up under a spelling of Chess Club only
EmailsFor(acts, activity_name) ==
    TestEmails \cup (IF activity_name \in SpellingsOfChessClub \cup {ChessClubBang}
                     THEN NextFiller(acts) ELSE {})

---------------------------------------------------------------------------
(* Requests handled one at a time *)

Request(op, activity_name, email, response) ==
    [op |-> op, activity_name |-> activity_name, email |-> email, response |-> response]

Threads == 1..NumThreads

\* a worker thread: where it is in signup_for_activity, and the handler's locals
\* (activity_name, request.email, and the key of the dict `activity` refers to)
Thread(pc, activity_name, email, key) ==
    [pc |-> pc, activity_name |-> activity_name, email |-> email, key |-> key]

IdleThread == Thread("idle", <<>>, <<>>, <<>>)

Init ==
    /\ activities = SeedActivities
    /\ last = Request("none", <<>>, <<>>, NoResponse)
    /\ th = [t \in Threads |-> IdleThread]

ListActivities ==
    /\ last' = Request("list", <<>>, <<>>, get_activities(activities))
    /\ UNCHANGED <<activities, th>>

GetActivity ==
    \E activity_name \in Names :
        /\ last' = Request("get", activity_name, <<>>,
                           get_activity(activities, activity_name))
        /\ UNCHANGED <<activities, th>>

Signup ==
    \E activity_name \in Names :
        \E email \in EmailsFor(activities, activity_name) :
            LET out == post_signup(activities, activity_name, email)
            IN  /\ activities' = out.activities
                /\ last' = Request("signup", activity_name, email, out.response)
                /\ UNCHANGED th

Next == ListActivities \/ GetActivity \/ Signup

Spec == Init /\ [][Next]_vars

---------------------------------------------------------------------------
(* Signup requests on concurrent worker threads.  The handler is a plain    *)
(* `def`, which the server runs in a thread pool; it takes no lock, so a    *)
(* thread may be preempted between any two of its statements.               *)

ConcNames == {chess_club, Unknown}

\* the students s.. arrive in order, possibly twice at once; alice asks for
\* Chess Club's last open seat
ConcEmails(acts) ==
    NextFiller(acts)
        \cup (IF Len(acts[ChessClub].participants) = acts[ChessClub].max_participants - 1
             THEN {Student("alice")} ELSE {})

\* lines 145-154: body validation, the domain check and the lookup read
\* nothing that a signup changes
Begin(t) ==
    /\ th[t].pc = "idle"
    /\ \E activity_name \in ConcNames :
        \E email \in ConcEmails(activities) :
            LET found == get_activity_by_name(activities, activity_name)
            IN  IF ~EmailStrValid(email)
                THEN /\ last' = Request("signup", activity_name, email,
                                        RequestValidationError)
                     /\ UNCHANGED <<activities, th>>
                ELSE IF ~is_valid_domain(email)
                THEN /\ last' = Request("signup", activity_name, email, DomainError)
                     /\ UNCHANGED <<activities, th>>
                ELSE IF found.raised
                THEN /\ last' = Request("signup", activity_name, email, found.exc)
                     /\ UNCHANGED <<activities, th>>
                ELSE /\ th' = [th EXCEPT ![t] =
                                  Thread("check_member", activity_name, email, found.key)]
                     /\ UNCHANGED <<activities, last>>

\* line 156: if request.email in activity["participants"]: raise ...
CheckMember(t) ==
    /\ th[t].pc = "check_member"
    /\ IF IsParticipant(activities, th[t].key, th[t].email)
       THEN /\ last' = Request("signup", th[t].activity_name, th[t].email,
                               AlreadySignedUpError(th[t].email))
            /\ th' = [th EXCEPT ![t] = IdleThread]
       ELSE /\ th' = [th EXCEPT ![t].pc = "check_full"]
            /\ UNCHANGED last
    /\ UNCHANGED activities

\* line 162: if len(activity["participants"]) >= activity["max_participants"]: raise ...
CheckFull(t) ==
    /\ th[t].pc = "check_full"
    /\ IF IsFull(activities, th[t].key)
       THEN /\ last' = Request("signup", th[t].activity_name, th[t].email,
                               ActivityFullError(th[t].activity_name))
            /\ th' = [th EXCEPT ![t] = IdleThread]
       ELSE /\ th' = [th EXCEPT ![t].pc = "append"]
            /\ UNCHANGED last
    /\ UNCHANGED activities

\* line 168: activity["participants"].append(request.email)
AppendStep(t) ==
    /\ th[t].pc = "append"
    /\ activities' = AppendParticipant(activities, th[t].key, th[t].email)
    /\ th' = [th EXCEPT ![t].pc = "respond"]
    /\ UNCHANGED last

\* lines 170-173: return {..., "current_participants": len(activity["participants"])}
Respond(t) ==
    /\ th[t].pc = "respond"
    /\ last' = Request("signup", th[t].activity_name, th[t].email,
                       SignupResult(activities, th[t].key, th[t].activity_name,
                                    th[t].email))
    /\ th' = [th EXCEPT ![t] = IdleThread]
    /\ UNCHANGED activities

NextConc ==
    \E t \in Threads :
        Begin(t) \/ CheckMember(t) \/ CheckFull(t) \/ AppendStep(t) \/ Respond(t)

SpecConc == Init /\ [][NextConc]_vars

---------------------------------------------------------------------------
(* Vocabulary of the properties *)

\* the failure a response stands for, told by its status and message
Kind(r) ==
    IF r.status_code = 200 THEN "Success"
    ELSE IF r.status_code = 0 THEN "None"
    ELSE CASE r.detail.fmt = "value is not a valid email address" -> "InvalidEmail"
           [] r.detail.fmt = "Only @mergington.edu email addresses are allowed"
                -> "ForbiddenDomain"
           [] r.detail.fmt = "Activity '{activity_name}' not found" -> "NotFound"
           [] r.detail.fmt = "Student '{request.email}' is already signed up for this activity"
                -> "AlreadySignedUp"
           [] r.detail.fmt = "Activity '{activity_name}' is already full" -> "ActivityFull"
           [] r.detail.fmt = "Activity name can only contain letters, numbers and spaces"
                -> "InvalidName"
           [] OTHER -> "Internal"

\* the keys that are the same activity name up to case and spacing
MatchingKeys(acts, activity_name) ==
    LET n == normalize_activity_name(activity_name)
    IN  {ActivityKeys[i] : i \in {j \in 1..Len(ActivityKeys) :
                                    /\ ActivityKeys[j] \in DOMAIN acts
                                    /\ NormalizedKeys[j] = n}}

\* the name has a character that is no letter, digit or whitespace
HasOtherCharacter(activity_name) ==
    \E i \in 1..Len(activity_name) :
        /\ ~IsUpper(activity_name[i])
        /\ ~IsLower(activity_name[i])
        /\ activity_name[i] \notin Digits
        /\ activity_name[i] \notin Whitespace

IsPrefix(p, q) == Len(p) <= Len(q) /\ SubSeq(q, 1, Len(p)) = p

\* the spellings given as equivalent to activity_name
SpellingClassOf(activity_name) ==
    UNION {c \in SpellingClasses : activity_name \in c}

Full(acts, k) == Len(acts[k].participants) = acts[k].max_participants

---------------------------------------------------------------------------
(* C1 *)

\* C1: with requests handled one at a time, every activity has at most
\* max_participants participants, in the seed state and ever after.
C1_WithinCapacity ==
    \A k \in DOMAIN activities :
        Len(activities[k].participants) <= activities[k].max_participants

\* the signup that took Chess Club's last seat has just been answered
C1_Witness ==
    /\ Full(activities, ChessClub)
    /\ last.op = "signup"
    /\ Kind(last.response) = "Success"
    /\ last.response.body.current_participants = activities[ChessClub].max_participants

---------------------------------------------------------------------------
(* C2 *)

\* C2: when signups with distinct emails for the same activity interleave, the
\* last open seat is given once: an activity whose participants are pairwise
\* distinct never has more than max_participants of them.
C2_LastSeatGivenOnce ==
    \A k \in DOMAIN activities :
        LET p == activities[k].participants
        IN  (\A i, j \in 1..Len(p) : i # j => p[i] # p[j])
                => ~(Len(p) > activities[k].max_participants)

---------------------------------------------------------------------------
(* C3 *)

\* C3: no email appears twice in an activity's participants, also when the
\* steps of several signups for the same activity and email interleave.
C3_NoDuplicateParticipants ==
    \A k \in DOMAIN activities :
        \A i, j \in 1..Len(activities[k].participants) :
            i # j => activities[k].participants[i] # activities[k].participants[j]

---------------------------------------------------------------------------
(* C4 *)

\* the first check of the documented order that the request violates
C4_FirstViolated(acts, activity_name, email) ==
    IF ~EmailStrValid(email) THEN "InvalidEmail"
    ELSE IF ~(email[Len(email)] = InstitutionDomain /\ email[Len(email) - 1] = "@")
    THEN "ForbiddenDomain"
    ELSE LET matching == MatchingKeys(acts, activity_name)
         IN  IF matching = {} THEN "NotFound"
             ELSE IF \E k \in matching :
                        \E i \in 1..Len(acts[k].participants) :
                            acts[k].participants[i] = email
             THEN "AlreadySignedUp"
             ELSE IF \E k \in matching :
                        Len(acts[k].participants) >= acts[k].max_participants
             THEN "ActivityFull"
             ELSE "Success"

C4_Status(kind, invalid_email_status) ==
    CASE kind = "InvalidEmail" -> invalid_email_status
      [] kind = "NotFound" -> 404
      [] kind = "Success" -> 200
      [] OTHER -> 400

C4_Step(invalid_email_status) ==
    last'.op = "signup" =>
        LET kind == C4_FirstViolated(activities, last'.activity_name, last'.email)
        IN  /\ Kind(last'.response) = kind
            /\ last'.response.status_code = C4_Status(kind, invalid_email_status)

---------------------------------------------------------------------------
(* C5 *)

\* C5: a signup that ends in a failure leaves every activity as it was, and the
\* catalog changes only in a step that answers a signup with success.
C5_NoPartialFailure ==
    [][ /\ (last'.op = "signup" /\ Kind(last'.response) # "Success")
              => activities' = activities
        /\ activities' # activities
              => (last'.op = "signup" /\ Kind(last'.response) = "Success") ]_vars

\* a signup was refused because the activity is full
C5_Witness ==
    /\ last.op = "signup"
    /\ Kind(last.response) = "ActivityFull"
    /\ \E k \in MatchingKeys(activities, last.activity_name) : Full(activities, k)

---------------------------------------------------------------------------
(* C6 *)

\* C6: a successful signup appends the email to the resolved activity's
\* participants (one element more, the earlier ones in place, the email last),
\* leaves the other activities alone and reports the new length; from the seed
\* state, new@mergington.edu for Chess Club is answered with 3.
C6_SuccessAppends ==
    [][ (last'.op = "signup" /\ Kind(last'.response) = "Success") =>
          /\ \E k \in MatchingKeys(activities, last'.activity_name) :
                /\ Len(activities'[k].participants)
                      = Len(activities[k].participants) + 1
                /\ SubSeq(activities'[k].participants, 1,
                          Len(activities[k].participants))
                      = activities[k].participants
                /\ activities'[k].participants[Len(activities'[k].participants)]
                      = last'.email
                /\ \A j \in DOMAIN activities \ {k} : activities'[j] = activities[j]
                /\ DOMAIN activities' = DOMAIN activities
                /\ last'.response.body.current_participants
                      = Len(activities'[k].participants)
          /\ (/\ activities = SeedActivities
              /\ last'.activity_name = ChessClub
              /\ last'.email = Student("new"))
                => last'.response.body.current_participants = 3 ]_vars

\* new@mergington.edu has just been signed up for the seed Chess Club
C6_Witness ==
    /\ last.op = "signup"
    /\ last.activity_name = ChessClub
    /\ last.email = Student("new")
    /\ Kind(last.response) = "Success"
    /\ last.response.body.current_participants = 3
    /\ Len(activities[ChessClub].participants) = 3

---------------------------------------------------------------------------
(* C7 *)

\* C7: names that differ only in case or spacing resolve to the same activity:
\* a get or a signup through any other spelling has the same outcome, and a
\* successful signup is seen through every other spelling (the get returns the
\* new participant, a second signup is refused as already signed up).
C7_SpellingsResolveAlike ==
    [][ \A other \in SpellingClassOf(last'.activity_name) :
          /\ last'.op = "get" =>
                LET r == get_activity(activities, other)
                IN  /\ Kind(r) = Kind(last'.response)
                    /\ r.status_code = 200 => r.body = last'.response.body
          /\ last'.op = "signup" =>
                LET o == post_signup(activities, other, last'.email)
                IN  /\ o.activities = activities'
                    /\ Kind(o.response) = Kind(last'.response)
                    /\ Kind(last'.response) = "Success" =>
                          /\ Contains(get_activity(activities', other).body.participants,
                                      last'.email)
                          /\ Kind(post_signup(activities', other, last'.email).response)
                                = "AlreadySignedUp" ]_vars

\* michael, a member of "Chess Club", was refused under the name "chess club"
C7_Witness ==
    /\ last.op = "signup"
    /\ last.activity_name = chess_club
    /\ last.email = Student("michael")
    /\ Kind(last.response) = "AlreadySignedUp"

---------------------------------------------------------------------------
(* C8 *)

\* C8: a get of a name with a character that is no letter, digit or
\* whitespace is answered 400 InvalidName; a get of a name without such a
\* character that matches no activity is answered 404 NotFound, the message
\* carrying the name as it was requested.
C8_GetFailures ==
    last.op = "get" =>
        /\ HasOtherCharacter(last.activity_name) =>
              /\ Kind(last.response) = "InvalidName"
              /\ last.response.status_code = 400
        /\ (/\ ~HasOtherCharacter(last.activity_name)
            /\ MatchingKeys(activities, last.activity_name) = {}) =>
              /\ Kind(last.response) = "NotFound"
              /\ last.response.status_code = 404
              /\ last.response.detail.args = <<last.activity_name>>

\* "Unknown\n", which is not its own normalized form, was not found
C8_Witness ==
    /\ last.op = "get"
    /\ last.activity_name = InsertAt(Unknown, 8, "\n")
    /\ normalize_activity_name(last.activity_name) # last.activity_name
    /\ Kind(last.response) = "NotFound"

---------------------------------------------------------------------------
(* C9 *)

\* C9: the key set and every description, schedule and max_participants stay
\* at their seed values, list and get change nothing, and every participants
\* list only grows at its end.
C9_Frame ==
    [][ /\ DOMAIN activities' = DOMAIN SeedActivities
        /\ \A k \in DOMAIN SeedActivities :
              /\ activities'[k].description = SeedActivities[k].description
              /\ activities'[k].schedule = SeedActivities[k].schedule
              /\ activities'[k].max_participants = SeedActivities[k].max_participants
              /\ IsPrefix(SeedActivities[k].participants, activities'[k].participants)
              /\ IsPrefix(activities[k].participants, activities'[k].participants)
        /\ last'.op \in {"list", "get"} => activities' = activities ]_vars

\* the catalog was listed after Chess Club and Math Club had grown
C9_Witness ==
    /\ last.op = "list"
    /\ Len(activities[ChessClub].participants) > Len(SeedActivities[ChessClub].participants)
    /\ Len(activities[MathClub].participants) > Len(SeedActivities[MathClub].participants)

---------------------------------------------------------------------------
(* C10 *)

\* C10: a signup under a name with punctuation is never answered InvalidName;
\* with a valid institution email it is answered 404 NotFound and the catalog
\* is unchanged.
C10_SignupHasNoNameCheck ==
    [][ (last'.op = "signup" /\ HasOtherCharacter(last'.activity_name)) =>
          /\ Kind(last'.response) # "InvalidName"
          /\ (EmailStrValid(last'.email) /\ is_valid_domain(last'.email)) =>
                /\ Kind(last'.response) = "NotFound"
                /\ last'.response.status_code = 404
                /\ activities' = activities ]_vars

\* new@mergington.edu was not found an activity under the name "Chess Club!"
C10_Witness ==
    /\ last.op = "signup"
    /\ last.activity_name = ChessClubBang
    /\ last.email \in {Filler(i) : i \in 1..NumFillers}
    /\ Kind(last.response) = "NotFound"
    /\ last.response.status_code = 404

====
